---- MODULE Spec2Model ----
(***************************************************************************)
(* Model of src/server.js: the in-memory room registry of a hidden-role    *)
(* party game, its socket handlers and its phase timers.                   *)
(*                                                                         *)
(* A JavaScript Map is modelled as a sequence of entries in insertion      *)
(* order (room.players, rooms) or as a function on its key set             *)
(* (room.assignments, whose order is never observed).  undefined and null  *)
(* are both the value None.  Every handler is one action; the messages it  *)
(* emits, in emission order, are the value of `out` after the action.      *)
(***************************************************************************)
EXTENDS Integers, Sequences, FiniteSets, TLC

\* ----------------------------------------------------------------- bounds
\* pending setTimeout callbacks the model keeps at once
MaxTimers == 2
\* create_room events
MaxCreates == 1
\* join_room events that enter a room
MaxJoins == 3
\* start_game events that start a game
MaxStarts == 2
\* further client events: night_action, vote, disconnect, a join_room that
\* finds no room
MaxMoves == 1
\* the further client events of SpecNight, SpecStart and SpecVote
NightMoves == 2
StartMoves == 1
VoteMoves == 5
\* the create_room, join_room and further client events of SpecRooms
RoomCreates == 2
RoomJoins == 2
RoomMoves == 2
\* the further client events of SpecNightFair
TimerMoves == 1
\* the join_room events that enter a room and the further client events of
\* SpecRejoin
RejoinJoins == 1
RejoinMoves == 1

\* ------------------------------------------------------ program constants
MinPlayers == 4
NightSecs == 35
DaySecs == 75
VoteSecs == 35
ResolveSecs == 3

None == "none"
\* socket ids in the order the connections first enter a room
SocketSeq == <<"s1", "s2", "s3", "s4", "s5">>
Sockets == {SocketSeq[i] : i \in 1..Len(SocketSeq)}
\* a vote target that is no socket id; as an integer-like string it is
\* enumerated first by Object.entries
Bogus == "7"
CodeSeq == <<"AAAA", "BBBB">>
Codes == {CodeSeq[i] : i \in 1..Len(CodeSeq)}

PHASES == [LOBBY |-> "LOBBY", NIGHT |-> "NIGHT", DAY |-> "DAY",
           VOTE |-> "VOTE", RESOLVE |-> "RESOLVE", END |-> "END"]

VARIABLES
  rooms,    \* the registry: sequence of room records, in Map insertion order
  timers,   \* pending setTimeout callbacks, in the order they were armed
  out,      \* messages emitted by the last event that did anything, in order
  nconn,    \* number of connections that have entered a room so far
  closed,   \* connections that have disconnected
  left      \* client events the bounds still allow, per kind

vars == <<rooms, timers, out, nconn, closed, left>>

\* -------------------------------------------------------------- Map helpers
Range(s) == {s[i] : i \in 1..Len(s)}

\* index of the entry with key k (field f), 0 when absent
RECURSIVE IndexFrom(_, _, _)
IndexFrom(s, k, i) ==
  IF i > Len(s) THEN 0
  ELSE IF s[i].id = k THEN i ELSE IndexFrom(s, k, i + 1)

PlayerIndex(players, id) == IndexFrom(players, id, 1)
HasPlayer(players, id) == PlayerIndex(players, id) # 0
GetPlayer(players, id) == players[PlayerIndex(players, id)]

\* Map.set: an existing key keeps its position, a new key goes last
SetPlayer(players, p) ==
  IF HasPlayer(players, p.id)
    THEN [players EXCEPT ![PlayerIndex(players, p.id)] = p]
    ELSE Append(players, p)

\* Map.delete
DeletePlayer(players, id) ==
  SelectSeq(players, LAMBDA p : p.id # id)

RECURSIVE RoomIndexFrom(_, _, _)
RoomIndexFrom(rs, code, i) ==
  IF i > Len(rs) THEN 0
  ELSE IF rs[i].code = code THEN i ELSE RoomIndexFrom(rs, code, i + 1)

RoomIndex(rs, code) == RoomIndexFrom(rs, code, 1)
HasRoom(rs, code) == RoomIndex(rs, code) # 0
getRoom(rs, code) == rs[RoomIndex(rs, code)]

\* rooms.set(code, room)
SetRoom(rs, room) ==
  IF HasRoom(rs, room.code)
    THEN [rs EXCEPT ![RoomIndex(rs, room.code)] = room]
    ELSE Append(rs, room)

\* rooms.delete(code)
DeleteRoom(rs, code) ==
  SelectSeq(rs, LAMBDA r : r.code # code)

alivePlayers(r) == SelectSeq(r.players, LAMBDA p : p.alive)

\* the player is present and alive: room.players.get(id)?.alive
IsAlive(r, id) == HasPlayer(r.players, id) /\ GetPlayer(r.players, id).alive

\* ---------------------------------------------------------------- messages
Emit(to, ev, arg) == [to |-> to, ev |-> ev, arg |-> arg]
SystemMessage(code, text) == Emit(code, "system_message", [text |-> text])

PublicPlayer(p) ==
  [id |-> p.id, name |-> p.name, alive |-> p.alive, voteFor |-> p.voteFor]

\* (mutant) the broadcast also carries the night's kill target
broadcastStateWithKill(room) ==
  Emit(room.code, "room_state",
       [code |-> room.code, phase |-> room.phase,
        kill |-> room.nightActions.kill,
        players |-> [i \in 1..Len(room.players) |-> PublicPlayer(room.players[i])]])

broadcastState(room) ==
  Emit(room.code, "room_state",
       [code |-> room.code, phase |-> room.phase,
        players |-> [i \in 1..Len(room.players) |-> PublicPlayer(room.players[i])]])

\* ------------------------------------------------------------ game logic
NoActions == [kill |-> None, save |-> None, inspect |-> None]
NoAssignments == [id \in {} |-> None]

\* (mutant) the test i = 3 written i >= 3: no CIVILIAN is ever assigned
RoleOfPositionAllDoctors(i) ==
  IF i = 1 THEN "MURDERER"
  ELSE IF i = 2 THEN "DETECTIVE"
  ELSE "DOCTOR"

\* the role assignRoles gives to position i of the shuffled ids
RoleOfPosition(i) ==
  IF i = 1 THEN "MURDERER"
  ELSE IF i = 2 THEN "DETECTIVE"
  ELSE IF i = 3 THEN "DOCTOR"
  ELSE "CIVILIAN"

PositionOf(ids, id) == CHOOSE i \in 1..Len(ids) : ids[i] = id

\* ids: the outcome of the comparator shuffle, a permutation of the keys
assignRoles(room, ids) ==
  IF Len(ids) < MinPlayers THEN [room |-> room, msgs |-> <<>>]
  ELSE LET a == [id \in Range(ids) |-> RoleOfPosition(PositionOf(ids, id))]
       IN [room |-> [room EXCEPT !.assignments = a],
           msgs |-> [i \in 1..Len(ids) |->
                      Emit(ids[i], "role_assignment", [role |-> a[ids[i]]])]]

\* (mutant) setPhase without its setTimeout
setPhaseNoTimer(room, phase, seconds) ==
  LET r == [room EXCEPT !.phase = phase]
  IN [room |-> r, arm |-> <<>>, msgs |-> <<broadcastState(r)>>]

\* seconds = 0 stands for the omitted argument
setPhase(room, phase, seconds) ==
  LET r == [room EXCEPT !.phase = phase]
  IN [room |-> r,
      arm |-> IF seconds # 0
                THEN <<[code |-> room.code, secs |-> seconds, phase |-> phase]>>
                ELSE <<>>,
      msgs |-> <<broadcastState(r)>>]

\* tally[pid] = (tally[pid]||0)+1, the keys kept in Object.entries order
TallyIndex(tally, pid) ==
  IF \E k \in 1..Len(tally) : tally[k].pid = pid
    THEN CHOOSE k \in 1..Len(tally) : tally[k].pid = pid
    ELSE 0

Bump(tally, pid) ==
  IF TallyIndex(tally, pid) # 0
    THEN [tally EXCEPT ![TallyIndex(tally, pid)].count = @ + 1]
    ELSE IF pid = Bogus
      THEN <<[pid |-> pid, count |-> 1]>> \o tally
      ELSE Append(tally, [pid |-> pid, count |-> 1])

RECURSIVE TallyFrom(_, _, _)
TallyFrom(players, i, tally) ==
  IF i > Len(players) THEN tally
  ELSE LET p == players[i]
       IN TallyFrom(players, i + 1,
                    IF p.alive /\ p.voteFor # None THEN Bump(tally, p.voteFor)
                    ELSE tally)

Tally(room) == TallyFrom(room.players, 1, <<>>)

\* (mutant) the loop without its else-if branch: a tie is never flagged
ScanStepNoTie(acc, e) ==
  IF e.count > acc.max THEN [max |-> e.count, target |-> e.pid, tie |-> FALSE]
  ELSE acc

\* one iteration of the loop over Object.entries(tally)
ScanStep(acc, e) ==
  IF e.count > acc.max THEN [max |-> e.count, target |-> e.pid, tie |-> FALSE]
  ELSE IF e.count = acc.max THEN [acc EXCEPT !.tie = TRUE]
  ELSE acc

RECURSIVE ScanFrom(_, _, _)
ScanFrom(tally, i, acc) ==
  IF i > Len(tally) THEN acc
  ELSE ScanFrom(tally, i + 1, ScanStep(acc, tally[i]))

Scan(tally) == ScanFrom(tally, 1, [max |-> 0, target |-> None, tie |-> FALSE])

resolveVotes(room) ==
  LET s == Scan(Tally(room))
  IN IF s.target = None \/ s.tie
       THEN [room |-> room, msgs |-> <<SystemMessage(room.code, "no_eject")>>]
     ELSE IF IsAlive(room, s.target)
       THEN LET i == PlayerIndex(room.players, s.target)
            IN [room |-> [room EXCEPT !.players[i].alive = FALSE],
                msgs |-> <<Emit(room.code, "system_message",
                                [text |-> "eject", name |-> room.players[i].name])>>]
     ELSE [room |-> room, msgs |-> <<>>]

\* (mutant) the doctor's save is not looked at
applyNightNoSave(room) ==
  LET kill == room.nightActions.kill
  IN IF kill # None /\ IsAlive(room, kill)
       THEN [room |-> [room EXCEPT
                        !.players[PlayerIndex(room.players, kill)].alive = FALSE],
             msgs |-> <<SystemMessage(room.code, "kill")>>]
       ELSE [room |-> room, msgs |-> <<>>]

applyNight(room) ==
  LET kill == room.nightActions.kill
      save == room.nightActions.save
  IN IF kill # None /\ IsAlive(room, kill)
       THEN IF save = kill
              THEN [room |-> room, msgs |-> <<SystemMessage(room.code, "save")>>]
              ELSE [room |-> [room EXCEPT
                               !.players[PlayerIndex(room.players, kill)].alive = FALSE],
                    msgs |-> <<SystemMessage(room.code, "kill")>>]
       ELSE [room |-> room, msgs |-> <<>>]

murdererIds(room) ==
  {id \in DOMAIN room.assignments : room.assignments[id] = "MURDERER"}

aliveM(room) ==
  Len(SelectSeq(alivePlayers(room), LAMBDA p : p.id \in murdererIds(room)))

aliveC(room) == Len(alivePlayers(room)) - aliveM(room)

checkWin(room) ==
  IF aliveM(room) = 0
    THEN [win |-> TRUE, msgs |-> <<SystemMessage(room.code, "citizens_win")>>]
  ELSE IF aliveM(room) >= aliveC(room)
    THEN [win |-> TRUE, msgs |-> <<SystemMessage(room.code, "murderer_win")>>]
  ELSE [win |-> FALSE, msgs |-> <<>>]

ClearVotes(players) ==
  [i \in 1..Len(players) |-> [players[i] EXCEPT !.voteFor = None]]

Nothing(rs) == [rooms |-> rs, arm |-> <<>>, msgs |-> <<>>]

\* put the room a step produced back in the registry
Stored(rs, step, before, after) ==
  [rooms |-> SetRoom(rs, step.room), arm |-> step.arm,
   msgs |-> before \o step.msgs \o after]

advance(rs, code) ==
  IF ~HasRoom(rs, code) THEN Nothing(rs)
  ELSE LET room == getRoom(rs, code)
       IN IF room.phase = PHASES.LOBBY THEN Nothing(rs)
          ELSE IF room.phase = PHASES.NIGHT
            THEN Stored(rs, setPhase(room, PHASES.DAY, DaySecs), <<>>, <<>>)
          ELSE IF room.phase = PHASES.DAY
            THEN Stored(rs, setPhase(room, PHASES.VOTE, VoteSecs), <<>>, <<>>)
          ELSE IF room.phase = PHASES.VOTE
            THEN LET sp == setPhase(room, PHASES.RESOLVE, ResolveSecs)
                     rv == resolveVotes(sp.room)
                 IN [rooms |-> SetRoom(rs, rv.room), arm |-> sp.arm,
                     msgs |-> sp.msgs \o rv.msgs]
          ELSE IF room.phase = PHASES.RESOLVE
            THEN LET cw == checkWin(room)
                 IN IF cw.win
                      THEN Stored(rs, setPhase(room, PHASES.END, 0), cw.msgs, <<>>)
                      ELSE Stored(rs,
                             setPhase([room EXCEPT !.nightActions = NoActions,
                                                   !.players = ClearVotes(@)],
                                      PHASES.NIGHT, NightSecs),
                             <<>>, <<>>)
          ELSE Nothing(rs)

\* ------------------------------------------------------------------ inputs
\* the name each connection sends ("" also stands for an absent name)
NameSent(s) ==
  CASE s = "s1" -> ""
    [] s = "s2" -> " Bo "
    [] s = "s3" -> "Cy"
    [] s = "s4" -> "   "
    [] OTHER -> "Di"

\* String.prototype.trim on the names sent
Trim(name) ==
  CASE name = " Bo " -> "Bo"
    [] name = "   " -> ""
    [] OTHER -> name

\* name?.trim()||dflt
NameOr(name, dflt) == IF Trim(name) = "" THEN dflt ELSE Trim(name)

\* the codes a join_room may carry, and String.prototype.toUpperCase on them
JoinCodes == Codes \cup {"aaaa"}
ToUpperCase(code) == IF code = "aaaa" THEN "AAAA" ELSE code

\* all orders the comparator shuffle can leave the keys in
RECURSIVE Orders(_)
Orders(ids) ==
  IF ids = {} THEN {<<>>}
  ELSE UNION {{<<id>> \o rest : rest \in Orders(ids \ {id})} : id \in ids}

Shuffles(players) == Orders({players[i].id : i \in 1..Len(players)})

NewPlayer(s, name) == [id |-> s, name |-> name, alive |-> TRUE, voteFor |-> None]

\* connections that have entered a room and are still open
Entered == {SocketSeq[i] : i \in 1..nconn} \ closed
\* the next connection: ids are opaque, so connections are numbered in the
\* order they first enter a room
Fresh == IF nconn < Len(SocketSeq) THEN {SocketSeq[nconn + 1]} ELSE {}
Actors == Entered \cup Fresh
EnterAs(s) == IF s \in Fresh THEN nconn + 1 ELSE nconn

\* codes are opaque too: code4 returns a code some room or pending timer
\* already carries, or the first code that none does
KnownCode(code) ==
  HasRoom(rooms, code) \/ \E i \in 1..Len(timers) : timers[i].code = code
code4 ==
  {CodeSeq[k] : k \in {k \in 1..Len(CodeSeq) :
                        \A j \in 1..(k - 1) : KnownCode(CodeSeq[j])}}

\* a timer fires when its delay has run out: of two pending timers, the one
\* armed earlier with a delay no longer than the other's fires first
CanFire(i) == \A j \in 1..(i - 1) : timers[j].secs > timers[i].secs

RemoveAt(s, i) == SubSeq(s, 1, i - 1) \o SubSeq(s, i + 1, Len(s))

\* ---------------------------------------------------------------- handlers
\* What a handler does to the registry rs: the registry it leaves (rooms),
\* the timers it arms (arm) and the messages it emits (msgs).  A handler
\* that returns early without emitting anything yields Nothing(rs): that
\* event is a stuttering step.
Only(rs, msgs) == [rooms |-> rs, arm |-> <<>>, msgs |-> msgs]

create_room(rs, s, code) ==
  LET room == [code |-> code, hostId |-> s, phase |-> PHASES.LOBBY,
               players |-> <<NewPlayer(s, NameOr(NameSent(s), "HOST"))>>,
               assignments |-> NoAssignments, nightActions |-> NoActions]
  IN [rooms |-> SetRoom(rs, room), arm |-> <<>>,
      msgs |-> <<Emit(s, "room_joined", [code |-> code, you |-> s, host |-> TRUE]),
                 broadcastState(room)>>]

join_room(rs, s, code) ==
  IF ~HasRoom(rs, ToUpperCase(code))
    THEN Only(rs, <<Emit(s, "error_message", [text |-> "room_not_found"])>>)
    ELSE LET room == getRoom(rs, ToUpperCase(code))
             r == [room EXCEPT !.players =
                     SetPlayer(@, NewPlayer(s, NameOr(NameSent(s), "PLAYER")))]
         IN [rooms |-> SetRoom(rs, r), arm |-> <<>>,
             msgs |-> <<Emit(s, "room_joined",
                             [code |-> room.code, you |-> s,
                              host |-> (room.hostId = s)]),
                        broadcastState(r)>>]

\* (mutant) start_game without the test of room.players.size
start_gameNoSizeCheck(rs, s, code, ids) ==
  IF ~HasRoom(rs, code) THEN Nothing(rs)
  ELSE LET room == getRoom(rs, code)
       IN IF s # room.hostId THEN Nothing(rs)
          ELSE LET ar == assignRoles(room, ids)
               IN Stored(rs, setPhase(ar.room, PHASES.NIGHT, NightSecs),
                         ar.msgs, <<>>)

\* ids: the order the shuffle in assignRoles leaves the keys in
start_game(rs, s, code, ids) ==
  IF ~HasRoom(rs, code) THEN Nothing(rs)
  ELSE LET room == getRoom(rs, code)
       IN IF s # room.hostId THEN Nothing(rs)
          ELSE IF Len(room.players) < MinPlayers
            THEN Only(rs, <<Emit(s, "error_message", [text |-> "need_4_players"])>>)
          ELSE LET ar == assignRoles(room, ids)
               IN Stored(rs, setPhase(ar.room, PHASES.NIGHT, NightSecs),
                         ar.msgs, <<>>)

night_action(rs, s, code, target) ==
  IF ~HasRoom(rs, code) THEN Nothing(rs)
  ELSE LET room == getRoom(rs, code)
           role == IF s \in DOMAIN room.assignments
                     THEN room.assignments[s] ELSE None
       IN IF room.phase # PHASES.NIGHT THEN Nothing(rs)
          ELSE IF role = None \/ ~IsAlive(room, target) THEN Nothing(rs)
          ELSE LET na == room.nightActions
                   na2 == IF role = "MURDERER" THEN [na EXCEPT !.kill = target]
                          ELSE IF role = "DOCTOR" THEN [na EXCEPT !.save = target]
                          ELSE IF role = "DETECTIVE" THEN [na EXCEPT !.inspect = target]
                          ELSE na
                   roleOfTarget == IF target \in DOMAIN room.assignments
                                     THEN room.assignments[target] ELSE None
               IN [rooms |-> SetRoom(rs, [room EXCEPT !.nightActions = na2]),
                   arm |-> <<>>,
                   msgs |-> IF role = "DETECTIVE"
                              THEN <<Emit(s, "inspect_result",
                                          [target |-> target,
                                           alignment |-> IF roleOfTarget = "MURDERER"
                                                           THEN "evil" ELSE "good"])>>
                              ELSE <<>>]

vote(rs, s, code, target) ==
  IF ~HasRoom(rs, code) THEN Nothing(rs)
  ELSE LET room == getRoom(rs, code)
       IN IF room.phase # PHASES.VOTE THEN Nothing(rs)
          ELSE IF ~IsAlive(room, s) THEN Nothing(rs)
          ELSE LET i == PlayerIndex(room.players, s)
                   r == [room EXCEPT !.players[i].voteFor = target]
               IN [rooms |-> SetRoom(rs, r), arm |-> <<>>,
                   msgs |-> <<broadcastState(r)>>]

\* (mutant) the advance handler without the test of room.hostId
host_advanceAnyone(rs, s, code) ==
  IF ~HasRoom(rs, code) THEN Nothing(rs)
  ELSE LET room == getRoom(rs, code)
           an == IF room.phase = PHASES.NIGHT THEN applyNight(room)
                 ELSE [room |-> room, msgs |-> <<>>]
           ad == advance(SetRoom(rs, an.room), code)
       IN [ad EXCEPT !.msgs = an.msgs \o @]

\* socket.on('advance'): the manual advance of the host
host_advance(rs, s, code) ==
  IF ~HasRoom(rs, code) THEN Nothing(rs)
  ELSE LET room == getRoom(rs, code)
       IN IF s # room.hostId THEN Nothing(rs)
          ELSE LET an == IF room.phase = PHASES.NIGHT THEN applyNight(room)
                         ELSE [room |-> room, msgs |-> <<>>]
                   ad == advance(SetRoom(rs, an.room), code)
               IN [ad EXCEPT !.msgs = an.msgs \o @]

\* (mutant) the disconnect loop without the promotion of a new host
RECURSIVE LeaveFromNoPromote(_, _, _, _)
LeaveFromNoPromote(rs, s, i, msgs) ==
  IF i > Len(rs) THEN [rooms |-> rs, arm |-> <<>>, msgs |-> msgs]
  ELSE LET room == rs[i]
       IN IF ~HasPlayer(room.players, s) THEN LeaveFromNoPromote(rs, s, i + 1, msgs)
          ELSE LET remaining == DeletePlayer(room.players, s)
                   r == [room EXCEPT !.players = remaining]
               IN IF Len(remaining) = 0
                    THEN LeaveFromNoPromote(RemoveAt(rs, i), s, i, msgs)
                    ELSE LeaveFromNoPromote([rs EXCEPT ![i] = r], s, i + 1,
                                            Append(msgs, broadcastState(r)))

\* the loop of the disconnect handler over the rooms from position i on
RECURSIVE LeaveFrom(_, _, _, _)
LeaveFrom(rs, s, i, msgs) ==
  IF i > Len(rs) THEN [rooms |-> rs, arm |-> <<>>, msgs |-> msgs]
  ELSE LET room == rs[i]
       IN IF ~HasPlayer(room.players, s) THEN LeaveFrom(rs, s, i + 1, msgs)
          ELSE LET wasHost == room.hostId = s
                   remaining == DeletePlayer(room.players, s)
                   next == IF Len(remaining) > 0 THEN remaining[1].id ELSE None
                   r == [room EXCEPT !.players = remaining,
                                     !.hostId = IF wasHost THEN next ELSE @]
               IN IF wasHost /\ next = None
                    THEN LeaveFrom(RemoveAt(rs, i), s, i, msgs)
                    ELSE LeaveFrom([rs EXCEPT ![i] = r], s, i + 1,
                                   Append(msgs, broadcastState(r)))

disconnect(rs, s) == LeaveFrom(rs, s, 1, <<>>)

\* ----------------------------------------------------------------- actions
\* the event does something, and the timers it arms fit the bound
Effect(res, pending) ==
  /\ res # Nothing(rooms)
  /\ Len(pending) + Len(res.arm) <= MaxTimers
  /\ rooms' = res.rooms
  /\ timers' = pending \o res.arm
  /\ out' = res.msgs

Spend(kind) ==
  /\ left[kind] > 0
  /\ left' = [left EXCEPT ![kind] = @ - 1]

Init ==
  /\ rooms = <<>>
  /\ timers = <<>>
  /\ out = <<>>
  /\ nconn = 0
  /\ closed = {}
  /\ left = [creates |-> MaxCreates, joins |-> MaxJoins, starts |-> MaxStarts,
             moves |-> MaxMoves]

CreateRoom(s, code) ==
  /\ Spend("creates")
  /\ Effect(create_room(rooms, s, code), timers)
  /\ nconn' = EnterAs(s)
  /\ UNCHANGED closed

JoinRoom(s, code) ==
  /\ Effect(join_room(rooms, s, code), timers)
  /\ IF HasRoom(rooms, ToUpperCase(code))
       THEN Spend("joins") /\ nconn' = EnterAs(s)
       ELSE Spend("moves") /\ UNCHANGED nconn
  /\ UNCHANGED closed

StartGame(s, code) ==
  /\ HasRoom(rooms, code)
  /\ s = getRoom(rooms, code).hostId
  /\ \E ids \in Shuffles(getRoom(rooms, code).players) :
       Effect(start_game(rooms, s, code, ids), timers)
  /\ IF Len(getRoom(rooms, code).players) >= MinPlayers
       THEN Spend("starts") ELSE UNCHANGED left
  /\ UNCHANGED <<nconn, closed>>

NightAction(s, code, target) ==
  /\ Spend("moves")
  /\ Effect(night_action(rooms, s, code, target), timers)
  /\ UNCHANGED <<nconn, closed>>

Vote(s, code, target) ==
  /\ Spend("moves")
  /\ Effect(vote(rooms, s, code, target), timers)
  /\ UNCHANGED <<nconn, closed>>

SocketAdvance(s, code) ==
  /\ Effect(host_advance(rooms, s, code), timers)
  /\ UNCHANGED <<nconn, closed, left>>

Disconnect(s) ==
  /\ Spend("moves")
  /\ LET res == disconnect(rooms, s)
     IN /\ rooms' = res.rooms
        /\ out' = res.msgs
  /\ closed' = closed \cup {s}
  /\ UNCHANGED <<timers, nconn>>

\* the callback of setTimeout: advance(room.code)
TimerFire(i) ==
  /\ CanFire(i)
  /\ LET res == advance(rooms, timers[i].code)
     IN /\ Len(timers) - 1 + Len(res.arm) <= MaxTimers
        /\ rooms' = res.rooms
        /\ timers' = RemoveAt(timers, i) \o res.arm
        /\ out' = res.msgs
  /\ UNCHANGED <<nconn, closed, left>>

VoteTargets == Sockets \cup {Bogus, None}

Next ==
  \/ \E s \in Actors : \E code \in code4 : CreateRoom(s, code)
  \/ \E s \in Actors : \E code \in JoinCodes : JoinRoom(s, code)
  \/ \E s \in Actors : \E code \in Codes : StartGame(s, code)
  \/ \E s \in Actors : \E code \in Codes : \E target \in Sockets :
       NightAction(s, code, target)
  \/ \E s \in Actors : \E code \in Codes : \E target \in VoteTargets :
       Vote(s, code, target)
  \/ \E s \in Actors : \E code \in Codes : SocketAdvance(s, code)
  \/ \E s \in Entered : Disconnect(s)
  \/ \E i \in 1..Len(timers) : TimerFire(i)

Spec == Init /\ [][Next]_vars

\* ------------------------------------------------ games already under way
\* The registry after s1 has created room AAAA and the next n - 1 connections
\* have joined it, as the handlers leave it.
RECURSIVE Lobby(_)
Lobby(n) ==
  IF n = 1 THEN create_room(<<>>, SocketSeq[1], CodeSeq[1]).rooms
  ELSE join_room(Lobby(n - 1), SocketSeq[n], CodeSeq[1]).rooms

\* SpecNight: a game of MinPlayers players that the host has just started,
\* under any shuffle; the clients send night actions or disconnect.
InitNight ==
  \E ids \in Shuffles(getRoom(Lobby(MinPlayers), CodeSeq[1]).players) :
    LET st == start_game(Lobby(MinPlayers), SocketSeq[1], CodeSeq[1], ids)
    IN /\ rooms = st.rooms
       /\ timers = st.arm
       /\ out = st.msgs
       /\ nconn = MinPlayers
       /\ closed = {}
       /\ left = [creates |-> 0, joins |-> 0, starts |-> 0, moves |-> NightMoves]

NextNight ==
  \/ \E s \in Actors : \E code \in Codes : \E target \in Sockets :
       NightAction(s, code, target)
  \/ \E s \in Actors : \E code \in Codes : SocketAdvance(s, code)
  \/ \E s \in Entered : Disconnect(s)
  \/ \E i \in 1..Len(timers) : TimerFire(i)

SpecNight == InitNight /\ [][NextNight]_vars

\* SpecStart: a lobby of four or five players; the host starts the game, and
\* may start it again, a player may disconnect.
InitStart ==
  \E n \in {MinPlayers, MinPlayers + 1} :
    /\ rooms = Lobby(n)
    /\ timers = <<>>
    /\ out = join_room(Lobby(n - 1), SocketSeq[n], CodeSeq[1]).msgs
    /\ nconn = n
    /\ closed = {}
    /\ left = [creates |-> 0, joins |-> 0, starts |-> MaxStarts, moves |-> StartMoves]

NextStart ==
  \/ \E s \in Actors : \E code \in Codes : StartGame(s, code)
  \/ \E s \in Actors : \E code \in Codes : SocketAdvance(s, code)
  \/ \E s \in Entered : Disconnect(s)
  \/ \E i \in 1..Len(timers) : TimerFire(i)

SpecStart == InitStart /\ [][NextStart]_vars

\* SpecVote: a game of five players that its timers have taken to its first
\* VOTE phase; the clients vote for one of three players or clear their vote.
VoteShuffles ==
  {<<"s1", "s2", "s3", "s4", "s5">>, <<"s4", "s5", "s1", "s2", "s3">>}
TallyTargets == {"s1", "s2", "s3", None}

InitVote ==
  \E ids \in VoteShuffles :
    LET st == start_game(Lobby(5), SocketSeq[1], CodeSeq[1], ids)
        day == advance(st.rooms, CodeSeq[1])
        vt == advance(day.rooms, CodeSeq[1])
    IN /\ rooms = vt.rooms
       /\ timers = vt.arm
       /\ out = vt.msgs
       /\ nconn = 5
       /\ closed = {}
       /\ left = [creates |-> 0, joins |-> 0, starts |-> 0, moves |-> VoteMoves]

NextVote ==
  \/ \E s \in Actors : \E code \in Codes : \E target \in TallyTargets :
       Vote(s, code, target)
  \/ \E s \in Actors : \E code \in Codes : SocketAdvance(s, code)
  \/ \E i \in 1..Len(timers) : TimerFire(i)

SpecVote == InitVote /\ [][NextVote]_vars

\* ------------------------------------------------------------------ claims
PhaseOf(rs, code) == getRoom(rs, code).phase

\* the room under this code before the step is the room under it after
SameRoom(code) ==
  /\ HasRoom(rooms, code)
  /\ HasRoom(rooms', code)
  /\ left'.creates = left.creates

\* a system_message with this text went to the room's channel
Announced(msgs, code, text) ==
  \E k \in 1..Len(msgs) :
    /\ msgs[k].to = code
    /\ msgs[k].ev = "system_message"
    /\ msgs[k].arg.text = text

AliveIds(r) == {r.players[i].id : i \in {j \in 1..Len(r.players) : r.players[j].alive}}
PlayerIds(r) == {r.players[i].id : i \in 1..Len(r.players)}

\* timer i was armed on entry to a phase its room has left since
Stale(i) ==
  /\ HasRoom(rooms, timers[i].code)
  /\ PhaseOf(rooms, timers[i].code) # timers[i].phase

\* C1: a stale timer is a no-op: when a timer armed on entry to phase P fires
\* after its room has left P, the registry is unchanged and no timer is armed.
C1_StaleTimerIsNoOp ==
  [][\A i \in 1..Len(timers) :
       (TimerFire(i) /\ Stale(i)) =>
         (rooms' = rooms /\ timers' = RemoveAt(timers, i))]_vars

\* the step takes the room from one phase to another
Goes(code, from, to) ==
  /\ SameRoom(code)
  /\ PhaseOf(rooms, code) = from
  /\ PhaseOf(rooms', code) = to

\* C2: Night Resolution runs on every exit from NIGHT, manual or by timer: on
\* every step NIGHT -> DAY, a submitted kill target that is alive and not the
\* save target is dead in DAY and 'kill' was announced; a kill target that is
\* the save target has 'save' announced.
C2_NightResolutionOnEveryExit ==
  [][\A code \in Codes :
       Goes(code, PHASES.NIGHT, PHASES.DAY) =>
         LET r == getRoom(rooms, code)
             kill == r.nightActions.kill
             save == r.nightActions.save
         IN (kill # None /\ IsAlive(r, kill)) =>
              IF save = kill
                THEN Announced(out', code, "save")
                ELSE /\ ~IsAlive(getRoom(rooms', code), kill)
                     /\ Announced(out', code, "kill")]_vars

PhaseEdges ==
  {<<PHASES.LOBBY, PHASES.NIGHT>>, <<PHASES.NIGHT, PHASES.DAY>>,
   <<PHASES.DAY, PHASES.VOTE>>, <<PHASES.VOTE, PHASES.RESOLVE>>,
   <<PHASES.RESOLVE, PHASES.NIGHT>>, <<PHASES.RESOLVE, PHASES.END>>}

TimersOf(ts, code) == SelectSeq(ts, LAMBDA t : t.code = code)

\* C3: a room's phase changes only along the six edges of the phase machine,
\* and END is terminal: no step changes the phase of a room in END or arms a
\* timer for it.
C3_PhaseEdgesOnly ==
  [][\A code \in Codes :
       SameRoom(code) =>
         /\ \/ PhaseOf(rooms', code) = PhaseOf(rooms, code)
            \/ <<PhaseOf(rooms, code), PhaseOf(rooms', code)>> \in PhaseEdges
         /\ PhaseOf(rooms, code) = PHASES.END =>
              /\ PhaseOf(rooms', code) = PHASES.END
              /\ Len(TimersOf(timers', code)) <= Len(TimersOf(timers, code))]_vars

\* the win condition of the Win Evaluator holds in room r
WinHolds(r) == aliveM(r) = 0 \/ aliveM(r) >= aliveC(r)

\* C4: the Win Evaluator runs after Night Resolution: a step out of NIGHT
\* that applies the night's kill and leaves no murderer alive, or at least as
\* many murderers as others, ends in END with the matching announcement.
C4_WinCheckAfterNight ==
  [][\A code \in Codes :
       (/\ SameRoom(code)
        /\ PhaseOf(rooms, code) = PHASES.NIGHT
        /\ PhaseOf(rooms', code) # PHASES.NIGHT
        /\ AliveIds(getRoom(rooms', code)) # AliveIds(getRoom(rooms, code))
        /\ PlayerIds(getRoom(rooms', code)) = PlayerIds(getRoom(rooms, code))
        /\ WinHolds(getRoom(rooms', code))) =>
         /\ PhaseOf(rooms', code) = PHASES.END
         /\ IF aliveM(getRoom(rooms', code)) = 0
              THEN Announced(out', code, "citizens_win")
              ELSE Announced(out', code, "murderer_win")]_vars

\* C5: a step out of RESOLVE is decided by the alive players only: no alive
\* murderer gives 'citizens_win' and END; else alive murderers >= alive others
\* gives 'murderer_win' and END; else NIGHT.  So no room goes from RESOLVE to
\* NIGHT unless a murderer is alive and the murderers are the fewer.
C5_ResolveOutcome ==
  [][\A code \in Codes :
       (/\ SameRoom(code)
        /\ PhaseOf(rooms, code) = PHASES.RESOLVE
        /\ PhaseOf(rooms', code) # PHASES.RESOLVE) =>
         LET r == getRoom(rooms, code)
         IN IF aliveM(r) = 0
              THEN /\ PhaseOf(rooms', code) = PHASES.END
                   /\ Announced(out', code, "citizens_win")
            ELSE IF aliveM(r) >= aliveC(r)
              THEN /\ PhaseOf(rooms', code) = PHASES.END
                   /\ Announced(out', code, "murderer_win")
            ELSE PhaseOf(rooms', code) = PHASES.NIGHT]_vars

\* the votes of the alive players of r for target t
VotesFor(r, t) ==
  Cardinality({i \in 1..Len(r.players) :
                 r.players[i].alive /\ r.players[i].voteFor = t})

Voted(r) == {t \in VoteTargets \ {None} : VotesFor(r, t) > 0}
TopVoted(r) == {t \in Voted(r) : \A u \in Voted(r) : VotesFor(r, u) <= VotesFor(r, t)}

\* an 'eject:<name>' announcement went to the room's channel
Ejected(msgs, code, name) ==
  \E k \in 1..Len(msgs) :
    /\ msgs[k].to = code
    /\ msgs[k].ev = "system_message"
    /\ msgs[k].arg = [text |-> "eject", name |-> name]

\* C6: at VOTE -> RESOLVE, when exactly one target has the strictly highest
\* count among the votes of alive players, that target is not alive afterwards
\* and 'eject:<name>' with its name is announced, whatever votes were accepted.
C6_TopTargetEjected ==
  [][\A code \in Codes :
       Goes(code, PHASES.VOTE, PHASES.RESOLVE) =>
         \A t \in TopVoted(getRoom(rooms, code)) :
           TopVoted(getRoom(rooms, code)) = {t} =>
             /\ ~IsAlive(getRoom(rooms', code), t)
             /\ \E name \in {"HOST", "PLAYER", "Bo", "Cy", "Di"} :
                  /\ Ejected(out', code, name)
                  /\ HasPlayer(getRoom(rooms, code).players, t) =>
                       GetPlayer(getRoom(rooms, code).players, t).name = name]_vars

Roles == {"MURDERER", "DETECTIVE", "DOCTOR", "CIVILIAN"}
Holders(r, role) ==
  {id \in PlayerIds(r) : id \in DOMAIN r.assignments /\ r.assignments[id] = role}

\* every player of r has a role, one each of the three special roles
Covered(r) ==
  /\ PlayerIds(r) \subseteq DOMAIN r.assignments
  /\ Cardinality(Holders(r, "MURDERER")) = 1
  /\ Cardinality(Holders(r, "DETECTIVE")) = 1
  /\ Cardinality(Holders(r, "DOCTOR")) = 1
  /\ Cardinality(Holders(r, "CIVILIAN")) = Len(r.players) - 3

\* C10: in every state, the players of a room whose game has started are
\* covered by the Assignment: one murderer, one detective, one doctor, and
\* every other player a civilian.
C10_StartedRoomCovered ==
  \A k \in 1..Len(rooms) : rooms[k].phase # PHASES.LOBBY => Covered(rooms[k])

\* the step is a manual advance out of NIGHT: it arms the DAY timer and no
\* timer has fired
ManualNightExit(code) ==
  /\ Goes(code, PHASES.NIGHT, PHASES.DAY)
  /\ Len(timers') = Len(timers) + 1

\* C7: at VOTE -> RESOLVE, when no alive player has a vote set or the highest
\* count is shared by two or more targets, no alive flag changes and 'no_eject'
\* is announced.
C7_TieOrNoVoteEjectsNobody ==
  [][\A code \in Codes :
       Goes(code, PHASES.VOTE, PHASES.RESOLVE) =>
         LET r == getRoom(rooms, code)
         IN (Voted(r) = {} \/ Cardinality(TopVoted(r)) >= 2) =>
              /\ AliveIds(getRoom(rooms', code)) = AliveIds(r)
              /\ Announced(out', code, "no_eject")]_vars

\* a room in RESOLVE after a tie at two votes each, a third target below it
C7_Witness ==
  \E k \in 1..Len(rooms) :
    /\ rooms[k].phase = PHASES.RESOLVE
    /\ Announced(out, rooms[k].code, "no_eject")
    /\ Cardinality(Voted(rooms[k])) = 3
    /\ Cardinality(TopVoted(rooms[k])) = 2
    /\ \A t \in TopVoted(rooms[k]) : VotesFor(rooms[k], t) = 2

\* C8: when Night Resolution runs (the host's advance out of NIGHT): an alive
\* kill target that is also the save target stays alive, 'save' is announced
\* and 'kill' is not; an alive kill target that is not the save target dies
\* and 'kill' is announced; with no kill target no alive flag changes.
C8_NightResolution ==
  [][\A code \in Codes :
       ManualNightExit(code) =>
         LET r == getRoom(rooms, code)
             after == getRoom(rooms', code)
             kill == r.nightActions.kill
             save == r.nightActions.save
         IN /\ (kill # None /\ IsAlive(r, kill) /\ save = kill) =>
                 /\ IsAlive(after, kill)
                 /\ Announced(out', code, "save")
                 /\ ~Announced(out', code, "kill")
            /\ (kill # None /\ IsAlive(r, kill) /\ save # kill) =>
                 /\ ~IsAlive(after, kill)
                 /\ Announced(out', code, "kill")
            /\ kill = None => AliveIds(after) = AliveIds(r)]_vars

\* a room in DAY whose kill target was saved
C8_Witness ==
  \E k \in 1..Len(rooms) :
    /\ rooms[k].phase = PHASES.DAY
    /\ rooms[k].nightActions.kill # None
    /\ rooms[k].nightActions.save = rooms[k].nightActions.kill
    /\ IsAlive(rooms[k], rooms[k].nightActions.kill)
    /\ Announced(out, rooms[k].code, "save")

\* the last event was a start_game that started a game
JustStarted == \E k \in 1..Len(out) : out[k].ev = "role_assignment"

HoldersOf(r, role) == {id \in DOMAIN r.assignments : r.assignments[id] = role}

\* C9: when the host starts a game with N >= 4 players, the Assignment maps
\* exactly the current players to roles, one MURDERER, one DETECTIVE, one
\* DOCTOR and N - 3 CIVILIANs, and the room is in NIGHT with its timer armed.
C9_StartAssignsRoles ==
  JustStarted =>
    LET code == out[Len(out)].arg.code
        r == getRoom(rooms, code)
    IN /\ HasRoom(rooms, code)
       /\ Len(r.players) >= MinPlayers
       /\ DOMAIN r.assignments = PlayerIds(r)
       /\ \A id \in PlayerIds(r) : r.assignments[id] \in Roles
       /\ Cardinality(HoldersOf(r, "MURDERER")) = 1
       /\ Cardinality(HoldersOf(r, "DETECTIVE")) = 1
       /\ Cardinality(HoldersOf(r, "DOCTOR")) = 1
       /\ Cardinality(HoldersOf(r, "CIVILIAN")) = Len(r.players) - 3
       /\ r.phase = PHASES.NIGHT
       /\ timers # <<>>
       /\ timers[Len(timers)] =
            [code |-> code, secs |-> NightSecs, phase |-> PHASES.NIGHT]

\* a game of five players just started, the host not the murderer
C9_Witness ==
  /\ JustStarted
  /\ \E k \in 1..Len(rooms) :
       /\ Len(rooms[k].players) = 5
       /\ rooms[k].hostId \in HoldersOf(rooms[k], "CIVILIAN")
       /\ Cardinality(HoldersOf(rooms[k], "CIVILIAN")) = 2

\* ------------------------------------------------------- several lobbies
\* SpecRooms: connections create rooms, join them and disconnect; no game is
\* started.  A connection may be a member of more than one room, and code4
\* may return the code of a live room.
InitRooms ==
  /\ rooms = <<>>
  /\ timers = <<>>
  /\ out = <<>>
  /\ nconn = 0
  /\ closed = {}
  /\ left = [creates |-> RoomCreates, joins |-> RoomJoins, starts |-> 0,
             moves |-> RoomMoves]

NextRooms ==
  \/ \E s \in Actors : \E code \in code4 : CreateRoom(s, code)
  \/ \E s \in Actors : \E code \in JoinCodes : JoinRoom(s, code)
  \/ \E s \in Entered : Disconnect(s)

SpecRooms == InitRooms /\ [][NextRooms]_vars

\* C11: create_room never replaces a live room: after a create_room every
\* room that was registered before is still registered under its code with
\* its state unchanged.
C11_CreateKeepsLiveRooms ==
  [][\A s \in Sockets : \A code \in Codes :
       CreateRoom(s, code) =>
         \A k \in 1..Len(rooms) :
           /\ HasRoom(rooms', rooms[k].code)
           /\ getRoom(rooms', rooms[k].code) = rooms[k]]_vars

NeedPlayers(s) == <<Emit(s, "error_message", [text |-> "need_4_players"])>>

\* C12: a start_game by the host of a room with fewer than 4 players leaves
\* the registry and the timers unchanged and emits one message only, the
\* error 'need_4_players' to the requesting connection.
C12_SmallRoomStartRejected ==
  [][\A s \in Sockets : \A code \in Codes :
       (/\ HasRoom(rooms, code)
        /\ Len(getRoom(rooms, code).players) < MinPlayers
        /\ StartGame(s, code)) =>
         /\ rooms' = rooms
         /\ timers' = timers
         /\ out' = NeedPlayers(s)]_vars

\* the host of a started room that a disconnect left with three players has
\* just been refused a restart
C12_Witness ==
  \E k \in 1..Len(rooms) :
    /\ rooms[k].phase = PHASES.NIGHT
    /\ Len(rooms[k].players) = MinPlayers - 1
    /\ out = NeedPlayers(rooms[k].hostId)

ActivePhases == {PHASES.NIGHT, PHASES.DAY, PHASES.VOTE, PHASES.RESOLVE}

\* C13: in every state, a start_game or an advance from a connection that is
\* not the room's hostId changes no room, arms no timer and emits nothing,
\* while the advance of the current host (after a host disconnect, the
\* promoted one) does take a room in an active phase onwards.
C13_NonHostDropped ==
  \A k \in 1..Len(rooms) :
    /\ \A s \in Sockets \ {rooms[k].hostId} :
         /\ host_advance(rooms, s, rooms[k].code) = Nothing(rooms)
         /\ \A ids \in Shuffles(rooms[k].players) :
              start_game(rooms, s, rooms[k].code, ids) = Nothing(rooms)
    /\ rooms[k].phase \in ActivePhases =>
         host_advance(rooms, rooms[k].hostId, rooms[k].code).rooms # rooms

\* the first host has disconnected and the promoted host has advanced the
\* room by hand out of NIGHT, with other players present
C13_Witness ==
  \E k \in 1..Len(rooms) :
    /\ "s1" \in closed
    /\ rooms[k].hostId = "s2"
    /\ Len(rooms[k].players) = 3
    /\ rooms[k].phase = PHASES.DAY
    /\ Len(timers) = 2

VoteOf(r, id) == GetPlayer(r.players, id).voteFor

\* C14: whenever a step sets a player's voteFor to a target, that target is a
\* player of the room who is alive when the vote is cast.
C14_VoteTargetAlive ==
  [][\A code \in Codes :
       SameRoom(code) =>
         LET r == getRoom(rooms, code)
             after == getRoom(rooms', code)
         IN \A id \in PlayerIds(r) \cap PlayerIds(after) :
              (VoteOf(after, id) # VoteOf(r, id) /\ VoteOf(after, id) # None) =>
                IsAlive(r, VoteOf(after, id))]_vars

\* other role assignments and night-action targets room r could hold
KeyOrder(r) == [i \in 1..Len(r.players) |-> r.players[i].id]
Reverse(s) == [i \in 1..Len(s) |-> s[Len(s) + 1 - i]]
OtherAssignments(r) ==
  {NoAssignments, assignRoles(r, KeyOrder(r)).room.assignments,
   assignRoles(r, Reverse(KeyOrder(r))).room.assignments}
OtherActions ==
  {NoActions} \cup
    {[kill |-> t, save |-> u, inspect |-> t] : t \in Sockets, u \in {None, "s1"}}

\* C15: role secrecy.  A room_state carries code, phase and each player's id,
\* name, alive and voteFor and nothing else, and is the same for any other
\* Assignment and night-action targets the room could hold; a role_assignment
\* goes to the player whose role it carries, an inspect_result to the
\* detective who submitted the inspect.
C15_RoleSecrecy ==
  /\ \A k \in 1..Len(rooms) :
       \A a \in OtherAssignments(rooms[k]) : \A na \in OtherActions :
         broadcastState([rooms[k] EXCEPT !.assignments = a, !.nightActions = na])
           = broadcastState(rooms[k])
  /\ \A m \in 1..Len(out) :
       /\ out[m].ev = "room_state" =>
            /\ DOMAIN out[m].arg = {"code", "phase", "players"}
            /\ \A i \in 1..Len(out[m].arg.players) :
                 DOMAIN out[m].arg.players[i] = {"id", "name", "alive", "voteFor"}
       /\ out[m].ev = "role_assignment" =>
            \E k \in 1..Len(rooms) :
              /\ out[m].to \in DOMAIN rooms[k].assignments
              /\ rooms[k].assignments[out[m].to] = out[m].arg.role
       /\ out[m].ev = "inspect_result" =>
            \E k \in 1..Len(rooms) :
              /\ out[m].to \in DOMAIN rooms[k].assignments
              /\ rooms[k].assignments[out[m].to] = "DETECTIVE"
              /\ rooms[k].nightActions.inspect = out[m].arg.target

\* the detective has just inspected the murderer, whose kill is submitted
C15_Witness ==
  \E k \in 1..Len(rooms) :
    /\ rooms[k].nightActions.kill # None
    /\ \E m \in 1..Len(out) :
         /\ out[m].ev = "inspect_result"
         /\ out[m].arg.alignment = "evil"

\* the room_state messages among msgs that went to the room's channel
StatesSent(msgs, code) ==
  SelectSeq(msgs, LAMBDA m : m.ev = "room_state" /\ m.to = code)

\* C16: after an event that broadcast a room_state to a room, the last such
\* broadcast equals the projection of the room's current state.
C16_PublicViewFresh ==
  \A k \in 1..Len(rooms) :
    LET sent == StatesSent(out, rooms[k].code)
    IN sent # <<>> => sent[Len(sent)] = broadcastState(rooms[k])

\* C17: every room in the registry has at least one player and its hostId is
\* one of its players; a disconnect removes exactly the rooms whose only
\* member was the leaver, and in every other room of the leaver the players
\* are the others and the host is a remaining member.
C17_RoomsHaveHost ==
  /\ [](\A k \in 1..Len(rooms) :
          /\ Len(rooms[k].players) >= 1
          /\ rooms[k].hostId \in PlayerIds(rooms[k]))
  /\ [][\A s \in Sockets :
          Disconnect(s) =>
            \A k \in 1..Len(rooms) :
              IF PlayerIds(rooms[k]) = {s}
                THEN ~HasRoom(rooms', rooms[k].code)
                ELSE /\ HasRoom(rooms', rooms[k].code)
                     /\ PlayerIds(getRoom(rooms', rooms[k].code))
                          = PlayerIds(rooms[k]) \ {s}
                     /\ getRoom(rooms', rooms[k].code).hostId
                          \in PlayerIds(rooms[k]) \ {s}
                     /\ rooms[k].hostId # s =>
                          getRoom(rooms', rooms[k].code).hostId = rooms[k].hostId]_vars

\* a connection that was the host of two rooms has disconnected: the room it
\* was alone in is gone, the other has a promoted host
C17_Witness ==
  /\ left.creates = 0
  /\ "s1" \in closed
  /\ Len(rooms) = 1
  /\ rooms[1].hostId = "s2"
  /\ out = <<broadcastState(rooms[1])>>

\* ------------------------------------------------------- timers do fire
\* SpecNightFair: a game of MinPlayers players just started, under two of
\* the shuffles, with the events of SpecNight; a pending setTimeout callback
\* is run by the event loop once its delay is over, so some armed timer
\* eventually fires.
InitTimers ==
  \E ids \in {KeyOrder(getRoom(Lobby(MinPlayers), CodeSeq[1])),
              Reverse(KeyOrder(getRoom(Lobby(MinPlayers), CodeSeq[1])))} :
    LET st == start_game(Lobby(MinPlayers), SocketSeq[1], CodeSeq[1], ids)
    IN /\ rooms = st.rooms
       /\ timers = st.arm
       /\ out = st.msgs
       /\ nconn = MinPlayers
       /\ closed = {}
       /\ left = [creates |-> 0, joins |-> 0, starts |-> 0, moves |-> TimerMoves]

SpecNightFair ==
  /\ InitTimers
  /\ [][NextNight]_vars
  /\ WF_vars(\E i \in 1..Len(timers) : TimerFire(i))

\* the delay each phase is entered with (0: none)
SecondsOf(phase) ==
  CASE phase = PHASES.NIGHT -> NightSecs
    [] phase = PHASES.DAY -> DaySecs
    [] phase = PHASES.VOTE -> VoteSecs
    [] phase = PHASES.RESOLVE -> ResolveSecs
    [] OTHER -> 0

\* C18: when armed timers eventually fire, a room never stays in NIGHT, DAY,
\* VOTE or RESOLVE for ever: for each of these phases it is again and again
\* the case that the room is gone or not in that phase; every step
\* into one of these phases arms a timer for that phase, and a step into END
\* arms none.
C18_TimersAdvance ==
  /\ \A code \in Codes : \A ph \in ActivePhases :
       []<>(~HasRoom(rooms, code) \/ PhaseOf(rooms, code) # ph)
  /\ [][\A code \in Codes :
          (SameRoom(code) /\ PhaseOf(rooms', code) # PhaseOf(rooms, code)) =>
            IF PhaseOf(rooms', code) \in ActivePhases
              THEN /\ timers' # <<>>
                   /\ timers'[Len(timers')] =
                        [code |-> code, secs |-> SecondsOf(PhaseOf(rooms', code)),
                         phase |-> PhaseOf(rooms', code)]
                   /\ Len(timers') >= Len(timers)
              ELSE /\ PhaseOf(rooms', code) = PHASES.END
                   /\ Len(timers') <= Len(timers)
                   /\ \A i \in 1..Len(timers') : timers'[i].phase # PHASES.END]_vars

\* a game that has run to END, all of its timers fired
C18_Witness ==
  \E k \in 1..Len(rooms) :
    /\ rooms[k].phase = PHASES.END
    /\ timers = <<>>
    /\ Len(alivePlayers(rooms[k])) >= 2

\* ------------------------------------------------- joins during a game
\* SpecRejoin: a game of MinPlayers players just started, under two of the
\* shuffles; besides the events of SpecNight, a connection may send
\* join_room, a member of the room included.
InitRejoin ==
  \E ids \in {KeyOrder(getRoom(Lobby(MinPlayers), CodeSeq[1])),
              Reverse(KeyOrder(getRoom(Lobby(MinPlayers), CodeSeq[1])))} :
    LET st == start_game(Lobby(MinPlayers), SocketSeq[1], CodeSeq[1], ids)
    IN /\ rooms = st.rooms
       /\ timers = st.arm
       /\ out = st.msgs
       /\ nconn = MinPlayers
       /\ closed = {}
       /\ left = [creates |-> 0, joins |-> RejoinJoins, starts |-> 0,
                  moves |-> RejoinMoves]

NextRejoin ==
  \/ \E s \in Actors : \E code \in JoinCodes : JoinRoom(s, code)
  \/ \E s \in Actors : \E code \in Codes : \E target \in Sockets :
       NightAction(s, code, target)
  \/ \E s \in Actors : \E code \in Codes : SocketAdvance(s, code)
  \/ \E s \in Entered : Disconnect(s)
  \/ \E i \in 1..Len(timers) : TimerFire(i)

SpecRejoin == InitRejoin /\ [][NextRejoin]_vars

\* C19: death is permanent: no step takes a player of a room from not alive
\* to alive while the room exists.
C19_DeathPermanent ==
  [][\A code \in Codes :
       SameRoom(code) =>
         \A id \in PlayerIds(getRoom(rooms, code)) :
           ~IsAlive(getRoom(rooms, code), id) => ~IsAlive(getRoom(rooms', code), id)]_vars

\* C20: a night_action sent by a player of the room who is not alive leaves
\* the room's nightActions unchanged and causes no inspect_result.
C20_DeadPlayerNightActionIgnored ==
  [][\A s \in Sockets : \A code \in Codes : \A target \in Sockets :
       (/\ HasRoom(rooms, code)
        /\ HasPlayer(getRoom(rooms, code).players, s)
        /\ ~IsAlive(getRoom(rooms, code), s)
        /\ NightAction(s, code, target)) =>
         /\ getRoom(rooms', code).nightActions = getRoom(rooms, code).nightActions
         /\ \A m \in 1..Len(out') : out'[m].ev # "inspect_result"]_vars

====
